---- MODULE Spec2Model ----
(***************************************************************************)
(* Model of iyes_progress (src/src/lib.rs): the Progress value, the        *)
(* ProgressCounter resource with its four atomic running counters and two  *)
(* persisted baselines, the per-frame reset (next_frame), the resource's   *)
(* lifecycle (loadstate_enter / loadstate_exit) and the transition         *)
(* decision taken at the end of every frame.                               *)
(*                                                                         *)
(* A u32 is a pair <<hi, lo>> of 16-bit halves, so that the counters keep  *)
(* their 32-bit width: fetch_add wraps modulo 2^32, and + / += / - panic   *)
(* on overflow in a build with overflow checks and wrap in one without.    *)
(*                                                                         *)
(* Spec      the lifecycle of a tracked state, every system one step       *)
(* SpecRace  one frame of parallel systems, every atomic access one step   *)
(* SpecValue Progress's own operations and ApplyProgress, on the smallest  *)
(*           and the largest u32 values                                    *)
(* SpecWait  dummy_system_wait_frames::<N> as the state's tracked system   *)
(***************************************************************************)
EXTENDS Integers, FiniteSets, Sequences, TLC

VARIABLES
    world,       \* the ECS world's resources: a function whose domain holds
                 \* "ProgressCounter" exactly when the resource is inserted
    panicked,    \* a system panicked (missing resource): the app is dead
    phase,       \* "Inactive" | "Active": is the tracked state the current one
    stage,       \* position in the frame: "Preparation" | "Tracking"
    decision,    \* check_progress's reading this frame: "pending" | "ready" | "not_ready"
    transition,  \* "none" | "queued": a State::set(next_state) is queued
    requests,    \* number of transition requests made in this activation
    next_state,  \* ProgressPlugin::next_state: "None" | "Some"
    calls,       \* systems (tracked or persisting) that have run in this frame
    persists,    \* persist_progress* calls made in this activation
    task,        \* per tracked system running in parallel: its position inside
                 \* manually_track* and the Progress it holds
    start,       \* history: the counter as the frame started (as created, or as reset)
    cyc,         \* history: exact sums of what this frame's calls contributed
    psum,        \* history: exact sums of what was persisted in this activation
    carry,       \* history: the readings taken right after a persist on a fresh counter
    malformed,   \* history: a visible contribution with done > total counts in this
                 \* frame: "none" | "recorded" (this frame only) | "persisted"
    prior,       \* history: the activation before persisted non-zero progress, and
                 \* no frame has started since the state was exited
    build,       \* "debug" | "release": are the build's overflow checks on
    args,        \* the Progress values an operation on values is applied to
    ret,         \* what the last operation on values returned, or that it panicked
    wait,        \* dummy_system_wait_frames: its N, its Local<u32> and its last return
    reader       \* a system reading the counter while others record: its position
                 \* inside progress() / progress_complete() and what it has loaded

\* What the lifecycle's systems never touch.
apart == <<build, args, ret, wait, reader>>

vars == <<world, panicked, phase, stage, decision, transition, requests,
          next_state, calls, persists, task, start, cyc, psum, carry, malformed, prior,
          build, args, ret, wait, reader>>

----------------------------------------------------------------------------
(* Bounds *)

NumTasks == 2
MaxUnits == 1
\* What an activation persists: the persist / persist_hidden calls it makes, and
\* the value they may take a component of a baseline to. The baselines are the
\* only counters that no frame resets.
MaxPersist == 2
MaxWait == 3
MaxLater == 2

Tasks == 1..NumTasks
Units == 0..MaxUnits

----------------------------------------------------------------------------
(* u32 *)

Half == 65536

U32 == (0..(Half - 1)) \X (0..(Half - 1))

\* The u32 of a small natural number.
U(n) == <<n \div Half, n % Half>>

\* The natural number of a u32 whose value TLC can hold.
ToNat(v) == v[1] * Half + v[2]

wrapping_add(a, b) ==
    LET lo == a[2] + b[2]
        hi == a[1] + b[1] + (lo \div Half)
    IN  <<hi % Half, lo % Half>>

le(a, b) == a[1] < b[1] \/ (a[1] = b[1] /\ a[2] <= b[2])

min(a, b) == IF le(a, b) THEN a ELSE b

\* u32::MAX - n, for a small n.
FromMax(n) == <<Half - 1, Half - 1 - n>>

\* The u32 values operations are tried on: the smallest and the largest ones.
Samples == {U(n) : n \in Units} \cup {FromMax(n) : n \in Units}

\* a + b does not fit a u32: the + and += operators panic when the build's
\* overflow checks are on, and wrap otherwise.
overflows(a, b) == a[1] + b[1] + ((a[2] + b[2]) \div Half) >= Half

\* a - b is negative: the - operator panics or wraps likewise.
underflows(a, b) == ~le(b, a)

wrapping_sub(a, b) ==
    LET lo == a[2] - b[2]
        borrow == IF lo < 0 THEN 1 ELSE 0
    IN  <<(a[1] - b[1] - borrow) % Half, lo % Half>>

\* v + j for a small j, not wrapped: the first digit may reach 2^16.
Plus(v, j) == <<v[1] + ((v[2] + j) \div Half), (v[2] + j) % Half>>

\* v - 1 for v > 0.
Pred(v) == IF v[2] = 0 THEN <<v[1] - 1, Half - 1>> ELSE <<v[1], v[2] - 1>>

Builds == {"debug", "release"}

\* Does an arithmetic overflow panic in this build.
overflow_checks(bld) == bld = "debug"

----------------------------------------------------------------------------
(* Progress *)

Progress(d, t) == [done |-> d, total |-> t]

ProgressDefault == Progress(U(0), U(0))

\* The Progress values the tracked systems report.
Inputs == {Progress(U(d), U(t)) : d \in Units, t \in Units}

\* The Progress values operations on values are tried on.
Values == {Progress(d, t) : d \in Samples, t \in Samples}

\* Mutant: false converts to {0,0}, which has nothing left to do.
from_bool_empty(b) == Progress(U(IF b THEN 1 ELSE 0), U(IF b THEN 1 ELSE 0))

\* impl From<bool> for Progress.
from_bool(b) == Progress(U(IF b THEN 1 ELSE 0), U(1))

\* Mutant: nothing to do is never ready.
is_ready_nonempty(p) == le(p.total, p.done) /\ p.total # U(0)

\* Mutant: ready only when done exceeds total.
is_ready_strict(p) == ~le(p.done, p.total)

is_ready(p) == le(p.total, p.done)

add_assign(a, b) ==
    [done |-> wrapping_add(a.done, b.done), total |-> wrapping_add(a.total, b.total)]

\* impl Add for Progress: the same two += on a copy of self.
add(a, b) ==
    [done |-> wrapping_add(a.done, b.done), total |-> wrapping_add(a.total, b.total)]

\* One of the two += of add / add_assign overflows.
add_overflows(a, b) == overflows(a.done, b.done) \/ overflows(a.total, b.total)

----------------------------------------------------------------------------
(* ProgressCounter *)

ProgressCounterDefault ==
    [done |-> U(0), total |-> U(0), done_hidden |-> U(0), total_hidden |-> U(0),
     persisted |-> ProgressDefault, persisted_hidden |-> ProgressDefault]

\* Mutant: the counter is overwritten (last write wins) instead of accumulated.
fetch_add_store(cur, val) == val

fetch_add(cur, val) == wrapping_add(cur, val)

progress(c) == [done |-> c.done, total |-> c.total]

\* Mutant: the hidden counters are left out of the complete reading.
progress_complete_visible_only(c) == [done |-> c.done, total |-> c.total]

progress_complete(c) ==
    [done |-> wrapping_add(c.done, c.done_hidden),
     total |-> wrapping_add(c.total, c.total_hidden)]

\* The loads of progress() and progress_complete(), one atomic load each, on the
\* reader's locals r.
load_total(r, c) == [r EXCEPT !.total = c.total]

load_total_hidden(r, c) == [r EXCEPT !.total_hidden = c.total_hidden]

\* Mutant: the done local is loaded from the total counter.
load_done_from_total(r, c) == [r EXCEPT !.done = c.total]

load_done(r, c) == [r EXCEPT !.done = c.done]

load_done_hidden(r, c) == [r EXCEPT !.done_hidden = c.done_hidden]

\* What the method returns from its locals.
returned(r) ==
    IF r.kind = "progress"
    THEN [done |-> r.done, total |-> r.total]
    ELSE [done |-> wrapping_add(r.done, r.done_hidden),
          total |-> wrapping_add(r.total, r.total_hidden)]

\* One of the two + of progress_complete overflows.
complete_overflows(c) == overflows(c.total, c.total_hidden) \/ overflows(c.done, c.done_hidden)

\* The two atomic steps of manually_track, in program order.
\* Mutant: the first step adds to the done counter, before the total is in.
track_total_done_first(c, p) == [c EXCEPT !.done = fetch_add(@, min(p.done, p.total))]

track_total(c, p) == [c EXCEPT !.total = fetch_add(@, p.total)]

\* Mutant: the clamp is applied to the accumulated sum, not to the contribution.
track_done_post_sum(c, p) == [c EXCEPT !.done = min(fetch_add(@, p.done), c.total)]

\* Mutant: the clamped contribution is stored, not added.
track_done_store(c, p) == [c EXCEPT !.done = min(p.done, p.total)]

track_done(c, p) == [c EXCEPT !.done = fetch_add(@, min(p.done, p.total))]

manually_track(c, p) == track_done(track_total(c, p), p)

\* The two atomic steps of manually_track_hidden, in program order.
track_total_hidden(c, p) == [c EXCEPT !.total_hidden = fetch_add(@, p.total)]

track_done_hidden(c, p) == [c EXCEPT !.done_hidden = fetch_add(@, min(p.done, p.total))]

\* Mutant: hidden progress is accounted in the visible counters.
manually_track_hidden_visible(c, p) == track_done(track_total(c, p), p)

manually_track_hidden(c, p) == track_done_hidden(track_total_hidden(c, p), p)

\* Mutant: the progress is folded into the baseline but not applied to this frame.
persist_progress_baseline_only(c, p) == [c EXCEPT !.persisted = add_assign(@, p)]

\* Mutant: the baseline is overwritten with the progress, not added to: the same
\* on a baseline of {0,0}, and only there.
persist_progress_overwrite(c, p) == [manually_track(c, p) EXCEPT !.persisted = p]

persist_progress(c, p) ==
    [manually_track(c, p) EXCEPT !.persisted = add_assign(@, p)]

persist_progress_hidden(c, p) ==
    [manually_track_hidden(c, p) EXCEPT !.persisted_hidden = add_assign(@, p)]

\* ApplyProgress for Progress and for HiddenProgress.
apply_progress(c, p) == manually_track(c, p)

apply_progress_hidden(c, h) == manually_track_hidden(c, h)

\* Mutant: the pair is summed and applied as one contribution, clamped once.
apply_progress_pair_joint(c, a, b) == apply_progress(c, add(a, b))

\* ApplyProgress for (T, T) with T = Progress: self.0, then self.1.
apply_progress_pair(c, a, b) == apply_progress(apply_progress(c, a), b)

\* ApplyProgress for (T, T) with T = HiddenProgress.
apply_progress_pair_hidden(c, a, b) == apply_progress_hidden(apply_progress_hidden(c, a), b)

\* dummy_system_wait_frames::<N>(count): the Local after the call, the
\* HiddenProgress returned, and whether *count += 1 or *count - 1 overflowed.
dummy_system_wait_frames(bld, n, count) ==
    LET inc == le(count, n)
        c1 == IF inc THEN wrapping_add(count, U(1)) ELSE count
        over == inc /\ overflows(count, U(1))
        under == underflows(c1, U(1))
    IN  [count |-> c1,
         val |-> Progress(wrapping_sub(c1, U(1)), n),
         panic |-> overflow_checks(bld) /\ (over \/ under),
         wrapped |-> under]

----------------------------------------------------------------------------
(* The world and the resource *)

NoResources == [r \in {} |-> ProgressCounterDefault]

HasCounter(w) == "ProgressCounter" \in DOMAIN w

insert_resource(w, c) == [r \in DOMAIN w \cup {"ProgressCounter"} |-> c]

remove_resource(w) == [r \in DOMAIN w \ {"ProgressCounter"} |-> w[r]]

loadstate_enter(w) == insert_resource(w, ProgressCounterDefault)

\* Mutant: the resource is left in the world when the state is exited.
loadstate_exit_keep(w) == w

loadstate_exit(w) == remove_resource(w)

\* What a system does to the world and whether it panics.
Outcome(w, p) == [world |-> w, panic |-> p]

\* Mutant: the running counters are reset to zero, not to the baselines.
next_frame_zero(w) ==
    IF HasCounter(w)
    THEN Outcome([w EXCEPT !.ProgressCounter =
                    [@ EXCEPT !.done = U(0), !.total = U(0),
                              !.done_hidden = U(0), !.total_hidden = U(0)]],
                 FALSE)
    ELSE Outcome(w, TRUE)

\* Mutant: a missing resource is silently skipped.
next_frame_silent(w) ==
    IF HasCounter(w)
    THEN LET c == w.ProgressCounter
         IN  Outcome([w EXCEPT !.ProgressCounter =
                        [c EXCEPT !.done = c.persisted.done,
                                  !.total = c.persisted.total,
                                  !.done_hidden = c.persisted_hidden.done,
                                  !.total_hidden = c.persisted_hidden.total]],
                     FALSE)
    ELSE Outcome(w, FALSE)

\* next_frame: world.resource panics when the resource is missing.
next_frame(w) ==
    IF HasCounter(w)
    THEN LET c == w.ProgressCounter
         IN  Outcome([w EXCEPT !.ProgressCounter =
                        [c EXCEPT !.done = c.persisted.done,
                                  !.total = c.persisted.total,
                                  !.done_hidden = c.persisted_hidden.done,
                                  !.total_hidden = c.persisted_hidden.total]],
                     FALSE)
    ELSE Outcome(w, TRUE)


\* A tracked system: Res<ProgressCounter>, then apply_progress of what it returned.
track_system(w, p) ==
    IF HasCounter(w)
    THEN Outcome([w EXCEPT !.ProgressCounter = manually_track(@, p)], FALSE)
    ELSE Outcome(w, TRUE)

track_hidden_system(w, p) ==
    IF HasCounter(w)
    THEN Outcome([w EXCEPT !.ProgressCounter = manually_track_hidden(@, p)], FALSE)
    ELSE Outcome(w, TRUE)

\* A system holding ResMut<ProgressCounter> that persists progress.
persist_system(w, p) ==
    IF HasCounter(w)
    THEN Outcome([w EXCEPT !.ProgressCounter = persist_progress(@, p)], FALSE)
    ELSE Outcome(w, TRUE)

persist_hidden_system(w, p) ==
    IF HasCounter(w)
    THEN Outcome([w EXCEPT !.ProgressCounter = persist_progress_hidden(@, p)], FALSE)
    ELSE Outcome(w, TRUE)

\* A system reading the counter through Res<ProgressCounter>.
read_system(w) == Outcome(w, ~HasCounter(w))

\* check_progress: the reading the transition decision is taken on.
check_progress(c) == is_ready(progress_complete(c))

----------------------------------------------------------------------------
(* History bookkeeping *)

NatMin(a, b) == IF a <= b THEN a ELSE b

CycZero == [vd |-> 0, vt |-> 0, hd |-> 0, ht |-> 0]

CycVisible(g, p) ==
    [g EXCEPT !.vd = @ + NatMin(ToNat(p.done), ToNat(p.total)), !.vt = @ + ToNat(p.total)]

CycHidden(g, p) ==
    [g EXCEPT !.hd = @ + NatMin(ToNat(p.done), ToNat(p.total)), !.ht = @ + ToNat(p.total)]

CarryOff == [on |-> FALSE, visible |-> ProgressDefault, complete |-> ProgressDefault]

CarryOf(c) == [on |-> TRUE, visible |-> progress(c), complete |-> progress_complete(c)]

SumVisible(g, p) == [g EXCEPT !.vd = @ + ToNat(p.done), !.vt = @ + ToNat(p.total)]

SumHidden(g, p) == [g EXCEPT !.hd = @ + ToNat(p.done), !.ht = @ + ToNat(p.total)]

\* The baselines these sums stand for stay within the bound.
Fits(g) == g.vd <= MaxPersist /\ g.vt <= MaxPersist /\ g.hd <= MaxPersist /\ g.ht <= MaxPersist

IsMalformed(p) == ~le(p.done, p.total)

Recorded(m, p) == IF IsMalformed(p) /\ m = "none" THEN "recorded" ELSE m

Persisted(m, p) == IF IsMalformed(p) THEN "persisted" ELSE m

IdleTask == [pc |-> "idle", progress |-> ProgressDefault]

NoArgs == [lhs |-> ProgressDefault, rhs |-> ProgressDefault]

\* op: the operation; a, b: its operands; flag / val: what it returned.
NoRet == [op |-> "none", a |-> ProgressDefault, b |-> ProgressDefault,
          flag |-> FALSE, val |-> ProgressDefault, panic |-> FALSE]

\* n: the const N; count: the Local<u32>; k: the calls made so far, a number that
\* may exceed a u32; called: one of them was made in this run, val is what it
\* returned, panic that it panicked on an overflow, wrapped that its
\* subtraction went below 0.
NoWait == [n |-> U(0), count |-> U(0), k |-> U(0), called |-> FALSE,
           val |-> ProgressDefault, panic |-> FALSE, wrapped |-> FALSE]

\* pc: the last load made; kind: the method called; val: what it returned;
\* fenced: every tracked system had finished when the first load was made.
IdleReader == [pc |-> "idle", kind |-> "none", total |-> U(0), total_hidden |-> U(0),
               done |-> U(0), done_hidden |-> U(0), val |-> ProgressDefault,
               fenced |-> FALSE]

----------------------------------------------------------------------------
(* Initial state: the app is built, the tracked state is not the current one *)

Init ==
    /\ world = NoResources
    /\ panicked = FALSE
    /\ phase = "Inactive"
    /\ stage = "Preparation"
    /\ decision = "pending"
    /\ transition = "none"
    /\ requests = 0
    /\ next_state \in {"None", "Some"}
    /\ calls = 0
    /\ persists = 0
    /\ task = [t \in Tasks |-> IdleTask]
    /\ start = ProgressCounterDefault
    /\ cyc = CycZero
    /\ psum = CycZero
    /\ carry = CarryOff
    /\ malformed = "none"
    /\ prior = FALSE
    \* no sum of the values reported here reaches 2^32: either build behaves alike
    /\ build = "release"
    /\ args = NoArgs
    /\ ret = NoRet
    /\ wait = NoWait
    /\ reader = IdleReader

----------------------------------------------------------------------------
(* Lifecycle *)

\* The tracked state is entered: its on_enter systems run.
EnterPhase ==
    /\ ~panicked
    /\ phase = "Inactive"
    /\ phase' = "Active"
    /\ world' = loadstate_enter(world)
    /\ stage' = "Preparation"
    /\ decision' = "pending"
    /\ transition' = "none"
    /\ requests' = 0
    /\ calls' = 0
    /\ persists' = 0
    /\ start' = ProgressCounterDefault
    /\ cyc' = CycZero
    /\ psum' = CycZero
    /\ carry' = CarryOff
    /\ malformed' = "none"
    /\ UNCHANGED <<apart, panicked, next_state, task, prior>>

\* The tracked state is left between two frames, by the queued transition or by
\* the application's own State::set: its on_exit systems run.
ExitPhase ==
    /\ ~panicked
    /\ phase = "Active"
    /\ stage = "Preparation"
    /\ phase' = "Inactive"
    /\ world' = loadstate_exit(world)
    /\ decision' = "pending"
    /\ transition' = "none"
    /\ requests' = 0
    /\ calls' = 0
    /\ persists' = 0
    /\ start' = ProgressCounterDefault
    /\ cyc' = CycZero
    /\ psum' = CycZero
    /\ carry' = CarryOff
    /\ malformed' = "none"
    /\ prior' = (prior \/ world.ProgressCounter.persisted # ProgressDefault
                       \/ world.ProgressCounter.persisted_hidden # ProgressDefault)
    /\ UNCHANGED <<apart, panicked, stage, next_state, task>>

\* The frame's first system. It runs in the tracked state's update set; run
\* anywhere else it finds no resource.
NextFrame ==
    /\ ~panicked
    /\ stage = "Preparation"
    /\ transition = "none"
    /\ LET out == next_frame(world)
       IN  /\ world' = out.world
           /\ panicked' = out.panic
           /\ stage' = IF out.panic THEN stage ELSE "Tracking"
           /\ start' = IF HasCounter(out.world) THEN out.world.ProgressCounter ELSE start
    /\ decision' = "pending"
    /\ calls' = 0
    /\ cyc' = CycZero
    /\ malformed' = IF malformed = "recorded" THEN "none" ELSE malformed
    /\ prior' = (prior /\ ~HasCounter(world))
    /\ UNCHANGED <<apart, psum, phase, transition, requests, next_state, persists, task, carry>>

----------------------------------------------------------------------------
(* The systems of a frame, each a whole handler *)

\* A tracked system returns p: record(p). Inside the tracked state it runs
\* after next_frame and before check_progress, once per frame.
Record(p) ==
    /\ ~panicked
    /\ HasCounter(world) => (stage = "Tracking" /\ calls < NumTasks)
    /\ LET out == track_system(world, p)
       IN  /\ world' = out.world
           /\ panicked' = out.panic
           /\ calls' = IF out.panic THEN calls ELSE calls + 1
           /\ cyc' = IF out.panic THEN cyc ELSE CycVisible(cyc, p)
           /\ malformed' = IF out.panic THEN malformed ELSE Recorded(malformed, p)
    /\ carry' = CarryOff
    /\ UNCHANGED <<apart, psum, phase, stage, decision, transition, requests, next_state, persists,
                   task, start, prior>>

\* A tracked system returns HiddenProgress(p): record_hidden(p).
RecordHidden(p) ==
    /\ ~panicked
    /\ HasCounter(world) => (stage = "Tracking" /\ calls < NumTasks)
    /\ LET out == track_hidden_system(world, p)
       IN  /\ world' = out.world
           /\ panicked' = out.panic
           /\ calls' = IF out.panic THEN calls ELSE calls + 1
           /\ cyc' = IF out.panic THEN cyc ELSE CycHidden(cyc, p)
    /\ carry' = CarryOff
    /\ UNCHANGED <<apart, psum, phase, stage, decision, transition, requests, next_state, persists,
                   task, start, malformed, prior>>

\* persist(p), from a system with exclusive access to the counter.
Persist(p) ==
    /\ ~panicked
    /\ HasCounter(world) =>
           /\ stage = "Tracking"
           /\ calls < NumTasks
           /\ persists < MaxPersist
           /\ Fits(SumVisible(psum, p))
    /\ LET out == persist_system(world, p)
       IN  /\ world' = out.world
           /\ panicked' = out.panic
           /\ persists' = IF out.panic THEN persists ELSE persists + 1
           /\ calls' = IF out.panic THEN calls ELSE calls + 1
           /\ cyc' = IF out.panic THEN cyc ELSE CycVisible(cyc, p)
           /\ psum' = IF out.panic THEN psum ELSE SumVisible(psum, p)
           /\ malformed' = IF out.panic THEN malformed ELSE Persisted(malformed, p)
           /\ carry' = IF ~out.panic /\ world.ProgressCounter = ProgressCounterDefault
                       THEN CarryOf(out.world.ProgressCounter)
                       ELSE CarryOff
    /\ UNCHANGED <<apart, phase, stage, decision, transition, requests, next_state,
                   task, start, prior>>

\* persist_hidden(p).
PersistHidden(p) ==
    /\ ~panicked
    /\ HasCounter(world) =>
           /\ stage = "Tracking"
           /\ calls < NumTasks
           /\ persists < MaxPersist
           /\ Fits(SumHidden(psum, p))
    /\ LET out == persist_hidden_system(world, p)
       IN  /\ world' = out.world
           /\ panicked' = out.panic
           /\ persists' = IF out.panic THEN persists ELSE persists + 1
           /\ calls' = IF out.panic THEN calls ELSE calls + 1
           /\ cyc' = IF out.panic THEN cyc ELSE CycHidden(cyc, p)
           /\ psum' = IF out.panic THEN psum ELSE SumHidden(psum, p)
           /\ carry' = IF ~out.panic /\ world.ProgressCounter = ProgressCounterDefault
                       THEN CarryOf(out.world.ProgressCounter)
                       ELSE CarryOff
    /\ UNCHANGED <<apart, phase, stage, decision, transition, requests, next_state,
                   task, start, malformed, prior>>

\* read_visible() / read_complete() from a system of the application.
Read ==
    /\ ~panicked
    /\ LET out == read_system(world)
       IN  /\ world' = out.world
           /\ panicked' = out.panic
    /\ UNCHANGED <<apart, psum, phase, stage, decision, transition, requests, next_state, calls,
                   persists, task, start, cyc, carry, malformed, prior>>

\* The frame's last system: the transition decision.
CheckProgress ==
    /\ ~panicked
    /\ phase = "Active"
    /\ stage = "Tracking"
    /\ LET ready == check_progress(world.ProgressCounter)
           set == ready /\ next_state = "Some"
       IN  /\ decision' = IF ready THEN "ready" ELSE "not_ready"
           /\ transition' = IF set THEN "queued" ELSE transition
           /\ requests' = IF set THEN requests + 1 ELSE requests
    /\ stage' = "Preparation"
    /\ calls' = 0
    /\ UNCHANGED <<apart, psum, world, panicked, phase, next_state, persists, task, start, cyc,
                   carry, malformed, prior>>

Next ==
    \/ EnterPhase
    \/ ExitPhase
    \/ NextFrame
    \/ \E p \in Inputs : Record(p)
    \/ \E p \in Inputs : RecordHidden(p)
    \/ \E p \in Inputs : Persist(p)
    \/ \E p \in Inputs : PersistHidden(p)
    \/ Read
    \/ CheckProgress

Spec == Init /\ [][Next]_vars

----------------------------------------------------------------------------
(* One frame of tracked systems running in parallel: every manually_track*     *)
(* call is two atomic steps, and the steps of different systems interleave.    *)

\* The state after the tracked state was entered and the frame's next_frame ran.
InitRace ==
    /\ world = next_frame(loadstate_enter(NoResources)).world
    /\ panicked = FALSE
    /\ phase = "Active"
    /\ stage = "Tracking"
    /\ decision = "pending"
    /\ transition = "none"
    /\ requests = 0
    /\ next_state = "Some"
    /\ calls = 0
    /\ persists = 0
    /\ task = [t \in Tasks |-> IdleTask]
    /\ start = ProgressCounterDefault
    /\ cyc = CycZero
    /\ psum = CycZero
    /\ carry = CarryOff
    /\ malformed = "none"
    /\ prior = FALSE
    /\ build = "release"
    /\ args = NoArgs
    /\ ret = NoRet
    /\ wait = NoWait
    /\ reader = IdleReader

Quiescent == \A t \in Tasks : task[t].pc \in {"idle", "done"}

\* manually_track, first step: self.total.fetch_add(progress.total).
BeginTrack(t, p) ==
    /\ stage = "Tracking"
    /\ task[t].pc = "idle"
    /\ world' = [world EXCEPT !.ProgressCounter = track_total(@, p)]
    /\ task' = [task EXCEPT ![t] = [pc |-> "track", progress |-> p]]
    /\ calls' = calls + 1
    /\ cyc' = CycVisible(cyc, p)
    /\ malformed' = Recorded(malformed, p)
    /\ UNCHANGED <<apart, psum, panicked, phase, stage, decision, transition, requests, next_state,
                   persists, start, carry, prior>>

\* manually_track, second step: self.done.fetch_add(min(progress.done, progress.total)).
EndTrack(t) ==
    /\ task[t].pc = "track"
    /\ world' = [world EXCEPT !.ProgressCounter = track_done(@, task[t].progress)]
    /\ task' = [task EXCEPT ![t].pc = "done"]
    /\ UNCHANGED <<apart, psum, panicked, phase, stage, decision, transition, requests, next_state,
                   calls, persists, start, cyc, carry, malformed, prior>>

\* manually_track_hidden, first step.
BeginTrackHidden(t, p) ==
    /\ stage = "Tracking"
    /\ task[t].pc = "idle"
    /\ world' = [world EXCEPT !.ProgressCounter = track_total_hidden(@, p)]
    /\ task' = [task EXCEPT ![t] = [pc |-> "track_hidden", progress |-> p]]
    /\ calls' = calls + 1
    /\ cyc' = CycHidden(cyc, p)
    /\ UNCHANGED <<apart, psum, panicked, phase, stage, decision, transition, requests, next_state,
                   persists, start, carry, malformed, prior>>

\* manually_track_hidden, second step.
EndTrackHidden(t) ==
    /\ task[t].pc = "track_hidden"
    /\ world' = [world EXCEPT !.ProgressCounter = track_done_hidden(@, task[t].progress)]
    /\ task' = [task EXCEPT ![t].pc = "done"]
    /\ UNCHANGED <<apart, psum, panicked, phase, stage, decision, transition, requests, next_state,
                   calls, persists, start, cyc, carry, malformed, prior>>

\* Every tracked system of the frame has finished.
AllDone == \A t \in Tasks : task[t].pc = "done"

\* What a step of the reading system leaves alone.
unread == <<world, panicked, phase, stage, decision, transition, requests, next_state,
            calls, persists, task, start, cyc, psum, carry, malformed, prior,
            build, args, ret, wait>>

Methods == {"progress", "progress_complete"}

\* A system calls progress() or progress_complete(): self.total.load.
LoadTotal(kind) ==
    /\ reader.pc = "idle"
    /\ reader' = [load_total(reader, world.ProgressCounter)
                     EXCEPT !.pc = "total", !.kind = kind, !.fenced = AllDone]
    /\ UNCHANGED unread

\* progress_complete(): self.total_hidden.load.
LoadTotalHidden ==
    /\ reader.kind = "progress_complete"
    /\ reader.pc = "total"
    /\ reader' = [load_total_hidden(reader, world.ProgressCounter)
                     EXCEPT !.pc = "total_hidden"]
    /\ UNCHANGED unread

\* self.done.load; progress() returns.
LoadDone ==
    /\ \/ reader.kind = "progress" /\ reader.pc = "total"
       \/ reader.kind = "progress_complete" /\ reader.pc = "total_hidden"
    /\ LET r == load_done(reader, world.ProgressCounter)
       IN  reader' = IF reader.kind = "progress"
                     THEN [r EXCEPT !.pc = "returned", !.val = returned(r)]
                     ELSE [r EXCEPT !.pc = "done"]
    /\ UNCHANGED unread

\* progress_complete(): self.done_hidden.load; it returns.
LoadDoneHidden ==
    /\ reader.kind = "progress_complete"
    /\ reader.pc = "done"
    /\ LET r == load_done_hidden(reader, world.ProgressCounter)
       IN  reader' = [r EXCEPT !.pc = "returned", !.val = returned(r)]
    /\ UNCHANGED unread

NextRace ==
    \/ \E t \in Tasks, p \in Inputs : BeginTrack(t, p)
    \/ \E t \in Tasks : EndTrack(t)
    \/ \E t \in Tasks, p \in Inputs : BeginTrackHidden(t, p)
    \/ \E t \in Tasks : EndTrackHidden(t)
    \/ \E kind \in Methods : LoadTotal(kind)
    \/ LoadTotalHidden
    \/ LoadDone
    \/ LoadDoneHidden

SpecRace == InitRace /\ [][NextRace]_vars

----------------------------------------------------------------------------
(* Operations on values: Progress's own functions on the smallest and the    *)
(* largest u32 values under either build, and contributions applied to the   *)
(* counter of a frame that has just started.                                 *)

InitValue ==
    /\ world = next_frame(loadstate_enter(NoResources)).world
    /\ panicked = FALSE
    /\ phase = "Active"
    /\ stage = "Tracking"
    /\ decision = "pending"
    /\ transition = "none"
    /\ requests = 0
    /\ next_state = "Some"
    /\ calls = 0
    /\ persists = 0
    /\ task = [t \in Tasks |-> IdleTask]
    /\ start = ProgressCounterDefault
    /\ cyc = CycZero
    /\ psum = CycZero
    /\ carry = CarryOff
    /\ malformed = "none"
    /\ prior = FALSE
    /\ build \in Builds
    /\ args \in [lhs : Values, rhs : Values]
    /\ ret = NoRet
    /\ wait = NoWait
    /\ reader = IdleReader

\* What an operation on values leaves alone.
rest == <<phase, decision, transition, requests, next_state, persists, task, cyc, psum,
          carry, malformed, prior, build, args, wait, reader>>

\* args.lhs.is_ready().
IsReady ==
    /\ ~panicked
    /\ ret.op = "none"
    /\ ret' = [NoRet EXCEPT !.op = "is_ready", !.a = args.lhs, !.flag = is_ready(args.lhs)]
    /\ UNCHANGED <<rest, world, panicked, stage, calls, start>>

\* args.lhs + args.rhs.
Add ==
    /\ ~panicked
    /\ ret.op = "none"
    /\ LET p == overflow_checks(build) /\ add_overflows(args.lhs, args.rhs)
       IN  /\ ret' = [NoRet EXCEPT !.op = "add", !.a = args.lhs, !.b = args.rhs,
                                   !.val = IF p THEN ProgressDefault
                                           ELSE add(args.lhs, args.rhs),
                                   !.panic = p]
           /\ panicked' = p
    /\ UNCHANGED <<rest, world, stage, calls, start>>

\* lhs += args.rhs on a copy of args.lhs, as persist_progress does on a baseline.
AddAssign ==
    /\ ~panicked
    /\ ret.op = "none"
    /\ LET p == overflow_checks(build) /\ add_overflows(args.lhs, args.rhs)
       IN  /\ ret' = [NoRet EXCEPT !.op = "add_assign", !.a = args.lhs, !.b = args.rhs,
                                   !.val = IF p THEN ProgressDefault
                                           ELSE add_assign(args.lhs, args.rhs),
                                   !.panic = p]
           /\ panicked' = p
    /\ UNCHANGED <<rest, world, stage, calls, start>>

\* A tracked system returns a bool: it is converted, then recorded.
TrackBool(b) ==
    /\ ~panicked
    /\ stage = "Tracking"
    /\ ret.op \in {"none", "track_bool"}
    /\ calls < NumTasks
    /\ world' = [world EXCEPT !.ProgressCounter = apply_progress(@, from_bool(b))]
    /\ start' = world.ProgressCounter
    /\ calls' = calls + 1
    /\ ret' = [NoRet EXCEPT !.op = "track_bool", !.flag = b, !.val = from_bool(b)]
    /\ UNCHANGED <<rest, panicked, stage>>

\* A tracked system returns the pair (args.lhs, args.rhs).
ApplyPair ==
    /\ ~panicked
    /\ stage = "Tracking"
    /\ ret.op \in {"none", "track_bool"}
    /\ world' = [world EXCEPT !.ProgressCounter =
                    apply_progress_pair(@, args.lhs, args.rhs)]
    /\ start' = world.ProgressCounter
    /\ calls' = calls + 1
    /\ ret' = [NoRet EXCEPT !.op = "pair", !.a = args.lhs, !.b = args.rhs]
    /\ UNCHANGED <<rest, panicked, stage>>

\* A tracked system returns the pair (HiddenProgress(args.lhs), HiddenProgress(args.rhs)).
ApplyPairHidden ==
    /\ ~panicked
    /\ stage = "Tracking"
    /\ ret.op \in {"none", "track_bool"}
    /\ world' = [world EXCEPT !.ProgressCounter =
                    apply_progress_pair_hidden(@, args.lhs, args.rhs)]
    /\ start' = world.ProgressCounter
    /\ calls' = calls + 1
    /\ ret' = [NoRet EXCEPT !.op = "pair_hidden", !.a = args.lhs, !.b = args.rhs]
    /\ UNCHANGED <<rest, panicked, stage>>

\* Two tracked systems return args.lhs and args.rhs, one after the other.
ApplyFirst ==
    /\ ~panicked
    /\ stage = "Tracking"
    /\ ret.op \in {"none", "track_bool"}
    /\ world' = [world EXCEPT !.ProgressCounter = apply_progress(@, args.lhs)]
    /\ start' = world.ProgressCounter
    /\ calls' = calls + 1
    /\ ret' = [NoRet EXCEPT !.op = "first", !.a = args.lhs, !.b = args.rhs]
    /\ UNCHANGED <<rest, panicked, stage>>

ApplySecond ==
    /\ ~panicked
    /\ stage = "Tracking"
    /\ ret.op = "first"
    /\ world' = [world EXCEPT !.ProgressCounter = apply_progress(@, args.rhs)]
    /\ calls' = calls + 1
    /\ ret' = [ret EXCEPT !.op = "both"]
    /\ UNCHANGED <<rest, panicked, stage, start>>

\* The same with HiddenProgress.
ApplyFirstHidden ==
    /\ ~panicked
    /\ stage = "Tracking"
    /\ ret.op \in {"none", "track_bool"}
    /\ world' = [world EXCEPT !.ProgressCounter = apply_progress_hidden(@, args.lhs)]
    /\ start' = world.ProgressCounter
    /\ calls' = calls + 1
    /\ ret' = [NoRet EXCEPT !.op = "first_hidden", !.a = args.lhs, !.b = args.rhs]
    /\ UNCHANGED <<rest, panicked, stage>>

ApplySecondHidden ==
    /\ ~panicked
    /\ stage = "Tracking"
    /\ ret.op = "first_hidden"
    /\ world' = [world EXCEPT !.ProgressCounter = apply_progress_hidden(@, args.rhs)]
    /\ calls' = calls + 1
    /\ ret' = [ret EXCEPT !.op = "both_hidden"]
    /\ UNCHANGED <<rest, panicked, stage, start>>

\* progress_complete() once the frame's contributions are in.
ReadComplete ==
    /\ ~panicked
    /\ stage = "Tracking"
    /\ ret.op \in {"pair", "pair_hidden", "both", "both_hidden"}
    /\ LET c == world.ProgressCounter
           p == overflow_checks(build) /\ complete_overflows(c)
       IN  /\ ret' = [NoRet EXCEPT !.op = "complete", !.a = progress(c),
                                   !.b = Progress(c.done_hidden, c.total_hidden),
                                   !.val = IF p THEN ProgressDefault
                                           ELSE progress_complete(c),
                                   !.panic = p]
           /\ panicked' = p
    /\ UNCHANGED <<rest, world, stage, calls, start>>

\* The decision of a frame in which no system reported anything.
EmptyFrame ==
    /\ calls = 0
    /\ ret.op = "none"
    /\ CheckProgress

NextValue ==
    \/ IsReady
    \/ Add
    \/ AddAssign
    \/ \E b \in BOOLEAN : TrackBool(b)
    \/ ApplyPair
    \/ ApplyPairHidden
    \/ ApplyFirst
    \/ ApplySecond
    \/ ApplyFirstHidden
    \/ ApplySecondHidden
    \/ ReadComplete
    \/ EmptyFrame

SpecValue == InitValue /\ [][NextValue]_vars

----------------------------------------------------------------------------
(* dummy_system_wait_frames::<N> as the only tracked system of the state: one *)
(* call per frame, between next_frame and check_progress.                     *)

\* The N tried and the calls already made when the run is picked up. A run of
\* 2^32 calls cannot be enumerated: for the N next to u32::MAX it is picked up
\* after u32::MAX - 2 calls, each of which found count < N and added 1 to it.
WaitStarts ==
    {[n |-> U(i), made |-> U(0)] : i \in 0..MaxWait}
        \cup {[n |-> FromMax(i), made |-> FromMax(2)] : i \in 0..1}

InitWait ==
    /\ world = loadstate_enter(NoResources)
    /\ panicked = FALSE
    /\ phase = "Active"
    /\ stage = "Preparation"
    /\ decision = "pending"
    /\ transition = "none"
    /\ requests = 0
    /\ next_state \in {"None", "Some"}
    /\ calls = 0
    /\ persists = 0
    /\ task = [t \in Tasks |-> IdleTask]
    /\ start = ProgressCounterDefault
    /\ cyc = CycZero
    /\ psum = CycZero
    /\ carry = CarryOff
    /\ malformed = "none"
    /\ prior = FALSE
    /\ build \in Builds
    /\ args = NoArgs
    /\ ret = NoRet
    /\ \E s \in WaitStarts : wait = [NoWait EXCEPT !.n = s.n, !.count = s.made, !.k = s.made]
    /\ reader = IdleReader

\* The frame's call of the system; what it returns is recorded as hidden progress.
WaitFrames ==
    /\ ~panicked
    /\ stage = "Tracking"
    /\ calls = 0
    /\ le(wait.k, Plus(wait.n, MaxLater))
    /\ LET o == dummy_system_wait_frames(build, wait.n, wait.count)
       IN  /\ wait' = [n |-> wait.n, count |-> o.count, k |-> Plus(wait.k, 1),
                       called |-> TRUE, val |-> o.val, panic |-> o.panic,
                       wrapped |-> o.wrapped]
           /\ panicked' = o.panic
           /\ world' = IF o.panic THEN world
                       ELSE [world EXCEPT !.ProgressCounter = apply_progress_hidden(@, o.val)]
    /\ calls' = calls + 1
    /\ UNCHANGED <<phase, stage, decision, transition, requests, next_state, persists, task,
                   start, cyc, psum, carry, malformed, prior, build, args, ret, reader>>

\* check_progress, after the frame's system.
WaitCheck ==
    /\ calls = 1
    /\ CheckProgress

NextWait ==
    \/ NextFrame
    \/ WaitFrames
    \/ WaitCheck

SpecWait == InitWait /\ [][NextWait]_vars

----------------------------------------------------------------------------
(* Claims *)

\* The counter of the active state.
Counter == world.ProgressCounter

\* C1: order-independence, no lost updates. On a freshly created counter, once
\* every record / record_hidden call of the frame has completed, whatever the
\* interleaving of their atomic adds, read_visible() is {sum of min(done, total),
\* sum of total} over the record calls, and the hidden counters hold the same
\* sums over the record_hidden calls.
C1_OrderIndependence ==
    Quiescent =>
        /\ progress(Counter) = Progress(U(cyc.vd), U(cyc.vt))
        /\ Counter.done_hidden = U(cyc.hd)
        /\ Counter.total_hidden = U(cyc.ht)

\* Every system has completed its call, visible and hidden ones among them.
C1_Witness ==
    /\ \A t \in Tasks : task[t].pc = "done"
    /\ cyc.vd >= 1
    /\ cyc.ht >= 1
    /\ progress(Counter) = Progress(U(cyc.vd), U(cyc.vt))

\* C2: per-contribution clamping. Every record(p) adds exactly p.total to the
\* visible running total and exactly min(p.done, p.total) to the visible running
\* done, also when p.done > p.total: the visible running counters are what the
\* frame started from plus, call by call, those amounts; the clamp is never
\* applied to the accumulated sum.
C2_PerCallClamp ==
    HasCounter(world) =>
        /\ ToNat(Counter.total) = ToNat(start.total) + cyc.vt
        /\ ToNat(Counter.done) = ToNat(start.done) + cyc.vd

\* Two records, one of them with done > total, after which clamping the
\* accumulated sum would have given done = total = 1.
C2_Witness ==
    /\ HasCounter(world)
    /\ stage = "Tracking"
    /\ calls = 2
    /\ persists = 0
    /\ malformed = "recorded"
    /\ cyc.vt = 1
    /\ progress(Counter) = Progress(U(0), U(1))

\* C3: hidden separation. The visible running counters move only by what the
\* record / persist calls add and the hidden ones only by what the record_hidden
\* / persist_hidden calls add, and the baselines hold what was persisted and
\* nothing else: record touches neither the hidden bucket nor a baseline, and
\* record_hidden neither the visible bucket nor a baseline, so read_visible()
\* never reflects hidden contributions;
\* read_complete() is the componentwise sum of the visible and the hidden
\* running counters.
C3_HiddenSeparation ==
    HasCounter(world) =>
        /\ progress(Counter) =
               Progress(U(ToNat(start.done) + cyc.vd), U(ToNat(start.total) + cyc.vt))
        /\ ToNat(Counter.done_hidden) = ToNat(start.done_hidden) + cyc.hd
        /\ ToNat(Counter.total_hidden) = ToNat(start.total_hidden) + cyc.ht
        /\ Counter.persisted = Progress(U(psum.vd), U(psum.vt))
        /\ Counter.persisted_hidden = Progress(U(psum.hd), U(psum.ht))
        /\ ToNat(progress_complete(Counter).done) =
               ToNat(Counter.done) + ToNat(Counter.done_hidden)
        /\ ToNat(progress_complete(Counter).total) =
               ToNat(Counter.total) + ToNat(Counter.total_hidden)

\* After record({1,1}) and record_hidden({1,1}): read_visible() is {1,1} and
\* read_complete() is {2,2}.
C3_Witness ==
    /\ HasCounter(world)
    /\ stage = "Tracking"
    /\ calls = 2
    /\ persists = 0
    /\ cyc.vd = 1 /\ cyc.vt = 1 /\ cyc.hd = 1 /\ cyc.ht = 1
    /\ progress(Counter) = Progress(U(1), U(1))
    /\ progress_complete(Counter) = Progress(U(2), U(2))

\* C4: reset-to-baseline carry-over, as claimed. What read_visible() and
\* read_complete() return right after persist(p) / persist_hidden(p) on a fresh
\* counter is what they return from then on, through any number of cycle
\* resets, as long as nothing else is recorded or persisted.
C4_CarryOver ==
    carry.on =>
        /\ progress(Counter) = carry.visible
        /\ progress_complete(Counter) = carry.complete

\* C5: persist(p) adds p componentwise to the visible baseline and applies it
\* to the visible running counters as record(p) does, leaving the hidden
\* running counters and the hidden baseline alone; persist_hidden(h) does the
\* same to the hidden baseline and the hidden running counters, leaving the
\* visible ones alone. Whatever the baselines held before the call: each
\* baseline is the componentwise sum of all that was persisted to it in this
\* activation, and nothing that was persisted to the other one.
C5_Persist ==
    HasCounter(world) =>
        /\ ToNat(Counter.persisted.done) = psum.vd
        /\ ToNat(Counter.persisted.total) = psum.vt
        /\ ToNat(Counter.persisted_hidden.done) = psum.hd
        /\ ToNat(Counter.persisted_hidden.total) = psum.ht
        /\ ToNat(Counter.done) = ToNat(start.done) + cyc.vd
        /\ ToNat(Counter.total) = ToNat(start.total) + cyc.vt
        /\ ToNat(Counter.done_hidden) = ToNat(start.done_hidden) + cyc.hd
        /\ ToNat(Counter.total_hidden) = ToNat(start.total_hidden) + cyc.ht

\* persist({1,1}) and persist_hidden({0,1}) in one frame, in either order: the
\* second of them acted on a counter whose other baseline was not {0,0}, and
\* each side holds its own value only, in its baseline and in its running
\* counters.
C5_Witness ==
    /\ HasCounter(world)
    /\ stage = "Tracking"
    /\ persists = 2
    /\ calls = 2
    /\ start = ProgressCounterDefault
    /\ Counter.persisted = Progress(U(1), U(1))
    /\ progress(Counter) = Progress(U(1), U(1))
    /\ Counter.persisted_hidden = Progress(U(0), U(1))
    /\ Counter.done_hidden = U(0)
    /\ Counter.total_hidden = U(1)

\* The frame has just been reset: next_frame ran and no system has run since.
JustReset == HasCounter(world) /\ stage = "Tracking" /\ calls = 0

\* C6: cycle reset. Right after a reset the four running counters hold the
\* persisted baselines, which are still exactly what was persisted in this
\* activation: what was only recorded in earlier frames is gone, and with
\* nothing persisted read_complete() is {0,0}.
C6_Reset ==
    JustReset =>
        /\ Counter.persisted = Progress(U(psum.vd), U(psum.vt))
        /\ Counter.persisted_hidden = Progress(U(psum.hd), U(psum.ht))
        /\ progress(Counter) = Counter.persisted
        /\ Counter.done_hidden = Counter.persisted_hidden.done
        /\ Counter.total_hidden = Counter.persisted_hidden.total
        /\ (persists = 0 => progress_complete(Counter) = ProgressDefault)

\* A reset in an activation that persisted {1,1} in an earlier frame, in which
\* something was recorded too: the running counters restart from {1,1}.
C6_Witness ==
    /\ JustReset
    /\ persists = 1
    /\ ~carry.on
    /\ Counter.persisted = Progress(U(1), U(1))
    /\ progress(Counter) = Progress(U(1), U(1))
    /\ progress_complete(Counter) = Progress(U(1), U(1))

\* check_progress has taken this frame's decision and the next frame has not
\* started: the counters still hold what the decision was taken on.
Checked == HasCounter(world) /\ decision # "pending"

CompleteDone == ToNat(Counter.done) + ToNat(Counter.done_hidden)

CompleteTotal == ToNat(Counter.total) + ToNat(Counter.total_hidden)

\* C7: the decision is taken on the complete aggregate. At the end of a frame
\* the state is ready iff visible done + hidden done >= visible total + hidden
\* total; while hidden done < hidden total and every visible contribution has
\* done <= total it is not ready, whatever read_visible() alone says.
C7_GatedOnComplete ==
    Checked =>
        /\ (decision = "ready") <=> (CompleteDone >= CompleteTotal)
        /\ (/\ ToNat(Counter.done_hidden) < ToNat(Counter.total_hidden)
            /\ malformed = "none") => decision = "not_ready"

\* read_visible() alone is ready ({1,1}), the hidden side is unfinished ({0,1}),
\* and the decision was "not ready".
C7_Witness ==
    /\ Checked
    /\ malformed = "none"
    /\ progress(Counter) = Progress(U(1), U(1))
    /\ Counter.done_hidden = U(0)
    /\ Counter.total_hidden = U(1)
    /\ decision = "not_ready"

\* C8: end-to-end transition. A frame starts only while no transition has been
\* requested in this activation; the frame's decision requests the transition
\* iff read_complete() is ready and a next state is configured, so it is
\* requested in the first ready frame and exactly once; once requested no
\* further frame of the state runs; with no next state nothing is requested.
C8_Transition ==
    /\ requests <= 1
    /\ (transition = "queued") <=> (requests = 1)
    /\ (transition = "queued") => (Checked /\ decision = "ready" /\ stage = "Preparation")
    /\ (next_state = "None") => (requests = 0)
    /\ (decision = "pending") => (requests = 0)
    /\ Checked =>
           ((requests = 1) <=> (next_state = "Some" /\ CompleteDone >= CompleteTotal))

\* Tasks reported {1,1} and hidden {1,1}: read_complete() = {2,2}, and the
\* transition is queued, once.
C8_Witness ==
    /\ Checked
    /\ next_state = "Some"
    /\ progress_complete(Counter) = Progress(U(2), U(2))
    /\ Counter.done_hidden = U(1)
    /\ transition = "queued"
    /\ requests = 1

\* The tracked state has just been entered: no frame has started yet.
JustEntered == phase = "Active" /\ stage = "Preparation" /\ decision = "pending"

\* C9: lifecycle. The counter exists exactly while the tracked state is active;
\* on entry all its running counters and both baselines are zero, and the
\* baselines stay zero until something is persisted in this activation, whatever
\* earlier activations persisted.
C9_Lifecycle ==
    /\ (phase = "Active") <=> HasCounter(world)
    /\ DOMAIN world \subseteq {"ProgressCounter"}
    /\ JustEntered => Counter = ProgressCounterDefault
    /\ (HasCounter(world) /\ persists = 0) =>
           (Counter.persisted = ProgressDefault /\ Counter.persisted_hidden = ProgressDefault)

\* The state is entered again after an activation that persisted progress.
C9_Witness ==
    /\ JustEntered
    /\ prior
    /\ Counter = ProgressCounterDefault

\* record, record_hidden, a read, or the cycle reset.
Misuse ==
    \/ NextFrame
    \/ Read
    \/ \E p \in Inputs : Record(p) \/ RecordHidden(p)

\* C10: misuse while inactive fails loudly. With no counter in the world, a
\* record, record_hidden, read or cycle reset panics and creates no counter; a
\* panicked app has no counter.
C10_MisuseFailsLoudly ==
    /\ [](panicked => ~HasCounter(world))
    /\ [][(~HasCounter(world) /\ ~panicked /\ Misuse) =>
              (panicked' /\ ~HasCounter(world'))]_vars

\* A system touched the counter after the state was exited: the app panicked,
\* and there is no counter.
C10_Witness ==
    /\ panicked
    /\ prior
    /\ phase = "Inactive"
    /\ ~HasCounter(world)

\* a >= b, for two u32.
AtLeast(a, b) == a[1] > b[1] \/ (a[1] = b[1] /\ a[2] >= b[2])

\* C11: readiness. For every Progress value is_ready() is true iff done >=
\* total; {0,0} is ready, and a frame in which no task reported anything
\* (the aggregate is still {0,0}) is decided ready.
C11_Readiness ==
    /\ (ret.op = "is_ready") => (ret.flag <=> AtLeast(ret.a.done, ret.a.total))
    /\ (ret.op = "is_ready" /\ ret.a = ProgressDefault) => ret.flag
    /\ (Checked /\ progress_complete(Counter) = ProgressDefault) => decision = "ready"

\* The first frame of a state in which nothing was reported was decided ready,
\* and {0,0}.is_ready() returned true.
C11_Witness ==
    /\ Checked
    /\ Counter = ProgressCounterDefault
    /\ decision = "ready"
    /\ ret.op = "is_ready"
    /\ ret.a = ProgressDefault
    /\ ret.flag

\* C12: boolean conversion. true converts to {1,1}, which is ready, and false
\* to {0,1}, which is not; recording a converted boolean adds 1 to the visible
\* running total and 1 (true) or 0 (false) to the visible running done, and
\* nothing anywhere else.
C12_BoolConversion ==
    (ret.op = "track_bool") =>
        /\ ret.flag => ret.val = Progress(U(1), U(1))
        /\ ~ret.flag => ret.val = Progress(U(0), U(1))
        /\ is_ready(ret.val) <=> ret.flag
        /\ ToNat(Counter.total) = ToNat(start.total) + 1
        /\ ToNat(Counter.done) = ToNat(start.done) + (IF ret.flag THEN 1 ELSE 0)
        /\ Counter.done_hidden = start.done_hidden
        /\ Counter.total_hidden = start.total_hidden
        /\ Counter.persisted = start.persisted
        /\ Counter.persisted_hidden = start.persisted_hidden

\* true was recorded, then false: the visible running counters hold {1,2}.
C12_Witness ==
    /\ ret.op = "track_bool"
    /\ ~ret.flag
    /\ calls = 2
    /\ progress(start) = Progress(U(1), U(1))
    /\ progress(Counter) = Progress(U(1), U(2))

\* r is a + b exactly: the sum's three base-2^16 digits are 0 and r's two.
ExactSum(r, a, b) ==
    LET lo == a[2] + b[2]
        hi == a[1] + b[1] + (lo \div Half)
    IN  <<hi \div Half, hi % Half, lo % Half>> = <<0, r[1], r[2]>>

\* C13: Progress arithmetic is total, as claimed. For all u32 components, a + b,
\* a += b and read_complete() never panic, and the result is the componentwise
\* sum, also when a component sum exceeds 2^32 - 1.
C13_ArithmeticTotal ==
    (ret.op \in {"add", "add_assign", "complete"}) =>
        /\ ~ret.panic
        /\ ExactSum(ret.val.done, ret.a.done, ret.b.done)
        /\ ExactSum(ret.val.total, ret.a.total, ret.b.total)

\* C14: within-cycle monotonicity. Right after a reset every running counter
\* equals its baseline field; from then until the next reset no step (a record,
\* record_hidden, persist or persist_hidden call among them) makes any of the
\* four running counters smaller.
C14_Monotone ==
    /\ [](JustReset =>
            /\ progress(Counter) = Counter.persisted
            /\ Progress(Counter.done_hidden, Counter.total_hidden) = Counter.persisted_hidden)
    /\ [][(HasCounter(world) /\ stage = "Tracking") =>
            /\ HasCounter(world')
            /\ ToNat(world'.ProgressCounter.done) >= ToNat(Counter.done)
            /\ ToNat(world'.ProgressCounter.total) >= ToNat(Counter.total)
            /\ ToNat(world'.ProgressCounter.done_hidden) >= ToNat(Counter.done_hidden)
            /\ ToNat(world'.ProgressCounter.total_hidden) >= ToNat(Counter.total_hidden)]_vars

\* A frame that was reset to a baseline of total 1, and in which two records
\* have since raised the running total to 3 and the running done.
C14_Witness ==
    /\ HasCounter(world)
    /\ stage = "Tracking"
    /\ calls = 2
    /\ progress(start) = Counter.persisted
    /\ ToNat(start.total) = 1
    /\ ToNat(Counter.total) = 3
    /\ ToNat(Counter.done) > ToNat(start.done)

\* C15: aggregate well-formedness, as claimed. Whatever is recorded or
\* persisted, and through every reset, the visible running done never exceeds
\* the visible running total, nor the hidden running done the hidden running
\* total.
C15_WellFormed ==
    HasCounter(world) =>
        /\ le(Counter.done, Counter.total)
        /\ le(Counter.done_hidden, Counter.total_hidden)

\* Every contribution made so far has done <= total.
WellFormedAll == \A t \in Tasks : le(task[t].progress.done, task[t].progress.total)

\* The snapshot the reading system got.
SnapDone == ToNat(reader.val.done)

SnapTotal == ToNat(reader.val.total)

\* The aggregate the method it called reads once every call has completed.
FinalDone ==
    ToNat(Counter.done) +
        (IF reader.kind = "progress_complete" THEN ToNat(Counter.done_hidden) ELSE 0)

FinalTotal ==
    ToNat(Counter.total) +
        (IF reader.kind = "progress_complete" THEN ToNat(Counter.total_hidden) ELSE 0)

\* C16, as claimed: a read_visible() / read_complete() whose loads interleave
\* with the adds of running record / record_hidden calls (zero baseline,
\* well-formed contributions) never returns done > total, and never returns a
\* ready snapshot when the aggregate after all calls (total > 0) is not ready.
C16_SnapshotConsistent ==
    (reader.pc = "returned" /\ WellFormedAll) =>
        /\ SnapDone <= SnapTotal
        /\ (AllDone /\ FinalTotal > 0 /\ SnapDone >= SnapTotal) => FinalDone >= FinalTotal

\* C16, amended: such a snapshot's done and total never exceed the done and the
\* total of the aggregate after all calls, in which done <= total; and a read
\* whose first load is made after every call has completed returns exactly that
\* aggregate.
C16_SnapshotBounded ==
    (reader.pc = "returned" /\ AllDone /\ WellFormedAll) =>
        /\ SnapDone <= FinalDone
        /\ SnapTotal <= FinalTotal
        /\ FinalDone <= FinalTotal
        /\ reader.fenced => (SnapDone = FinalDone /\ SnapTotal = FinalTotal)

\* A read that was not fenced returned a snapshot with done > total, although
\* every contribution was well-formed.
C16_Witness ==
    /\ reader.pc = "returned"
    /\ AllDone
    /\ WellFormedAll
    /\ ~reader.fenced
    /\ SnapDone > SnapTotal
    /\ SnapDone <= FinalDone
    /\ FinalDone <= FinalTotal

\* C17: intermediate-state ordering. With a zero baseline and nothing
\* persisted, in every state of the frame, the states between the two adds of
\* any of the running record / record_hidden calls included, the stored visible
\* done is at most the stored visible total and the stored hidden done at most
\* the stored hidden total.
C17_StoredOrdering ==
    /\ ToNat(Counter.done) <= ToNat(Counter.total)
    /\ ToNat(Counter.done_hidden) <= ToNat(Counter.total_hidden)

\* One record and one record_hidden are both between their two adds: the totals
\* are in, the dones are not.
C17_Witness ==
    /\ \E t \in Tasks : task[t].pc = "track" /\ task[t].progress = Progress(U(1), U(1))
    /\ \E t \in Tasks : task[t].pc = "track_hidden" /\ task[t].progress = Progress(U(1), U(1))
    /\ progress(Counter) = Progress(U(0), U(1))
    /\ Counter.done_hidden = U(0)
    /\ Counter.total_hidden = U(1)

\* Both components of p are small enough to be counted with.
Small(p) == p.done[1] = 0 /\ p.total[1] = 0

\* The two running counters of a bucket after a and b were applied to it one
\* after the other, each clamped on its own, from the counters d and t.
AfterBoth(d, t, a, b) ==
    [done |-> wrapping_add(wrapping_add(d, min(a.done, a.total)), min(b.done, b.total)),
     total |-> wrapping_add(wrapping_add(t, a.total), b.total)]

\* C18: pair combinator. Applying the pair (a, b) leaves the counter in the
\* state that applying a and then b individually leaves it in: a pair of
\* Progress values moves the visible running counters by (min(a.done, a.total)
\* + min(b.done, b.total), a.total + b.total) and nothing else, and a pair of
\* HiddenProgress values does the same to the hidden running counters.
C18_PairCombinator ==
    /\ (ret.op \in {"pair", "both"}) =>
        /\ progress(Counter) = AfterBoth(start.done, start.total, ret.a, ret.b)
        /\ (Small(ret.a) /\ Small(ret.b)) =>
            /\ ToNat(Counter.done) = ToNat(start.done)
                   + NatMin(ToNat(ret.a.done), ToNat(ret.a.total))
                   + NatMin(ToNat(ret.b.done), ToNat(ret.b.total))
            /\ ToNat(Counter.total) =
                   ToNat(start.total) + ToNat(ret.a.total) + ToNat(ret.b.total)
        /\ Counter.done_hidden = start.done_hidden
        /\ Counter.total_hidden = start.total_hidden
        /\ Counter.persisted = start.persisted
        /\ Counter.persisted_hidden = start.persisted_hidden
    /\ (ret.op \in {"pair_hidden", "both_hidden"}) =>
        /\ Progress(Counter.done_hidden, Counter.total_hidden) =
               AfterBoth(start.done_hidden, start.total_hidden, ret.a, ret.b)
        /\ (Small(ret.a) /\ Small(ret.b)) =>
            /\ ToNat(Counter.done_hidden) = ToNat(start.done_hidden)
                   + NatMin(ToNat(ret.a.done), ToNat(ret.a.total))
                   + NatMin(ToNat(ret.b.done), ToNat(ret.b.total))
            /\ ToNat(Counter.total_hidden) =
                   ToNat(start.total_hidden) + ToNat(ret.a.total) + ToNat(ret.b.total)
        /\ progress(Counter) = progress(start)
        /\ Counter.persisted = start.persisted
        /\ Counter.persisted_hidden = start.persisted_hidden

\* The pair ({1,0}, {0,1}) was applied to running counters of {1,1}: they hold
\* {1,2}, where the pair clamped as a whole would have given {2,2}.
C18_Witness ==
    /\ ret.op = "pair"
    /\ ret.a = Progress(U(1), U(0))
    /\ ret.b = Progress(U(0), U(1))
    /\ progress(start) = Progress(U(1), U(1))
    /\ progress(Counter) = Progress(U(1), U(2))

\* C19: dummy_system_wait_frames<N>, as claimed. The k-th call returns
\* {k-1, N} for 1 <= k <= N+1 and {N, N} for every later call: it is ready
\* exactly from call N+1 on, never reports done > total, never panics, and its
\* subtraction never goes below 0.
C19_WaitFrames ==
    wait.called =>
        /\ ~wait.panic
        /\ ~wait.wrapped
        /\ wait.val.total = wait.n
        /\ wait.val.done = (IF le(wait.k, Plus(wait.n, 1)) THEN Pred(wait.k) ELSE wait.n)
        /\ le(wait.val.done, wait.val.total)
        /\ is_ready(wait.val) <=> ~le(wait.k, wait.n)

====
